---- MODULE Spec2Model ----
(***************************************************************************)
(* Model of cmds/screenrecord/screenrecord.cpp: the signal handler, the    *)
(* encoder loop runEncoder and its caller recordScreen.                    *)
(*                                                                         *)
(* status_t values are modelled by their names, buffer flag words by the   *)
(* set of flag names they contain.  Time is scaled: one second of the      *)
(* monotonic clock is NsPerSec clock units, one microsecond is NsPerUs.    *)
(* The MediaCodec encoders, the AudioRecord and the MediaMuxer are         *)
(* collaborators whose results are chosen nondeterministically; the calls  *)
(* made on them by the last step are recorded, in order, in `calls`.       *)
(***************************************************************************)
EXTENDS Integers, Sequences, FiniteSets, TLC

VARIABLES
    pc,              \* position of the main thread
    gRecordAudio,    \* static bool gRecordAudio
    gStopRequested,  \* static bool gStopRequested
    disposition,     \* signal -> "orig" | "signalCatcher"
    videoTrackIdx,   \* runEncoder local
    audioTrackIdx,   \* runEncoder local
    tracksAdded,     \* runEncoder local
    lastAudioPtsUs,  \* runEncoder local
    now,             \* systemTime(CLOCK_MONOTONIC)
    startWhenNsec,   \* runEncoder local
    endWhenNsec,     \* runEncoder local
    err,             \* status returned by runEncoder / recordScreen
    muxTracks,       \* number of tracks the muxer holds
    startCalls,      \* history: number of muxer->start() calls
    addTrackCalls,   \* history: stream -> number of muxer->addTrack calls
    stopCalls,       \* history: number of muxer->stop() calls
    lastAudioWrite,  \* history: <<pts>> of the last audio sample written, or <<>>
    caught,          \* history: signalCatcher has run since the loop was entered
    lastVideoWrite,  \* history: <<pts>> of the last video sample written, or <<>>
    audioSetupFailed, \* history: prepareAudioEncoder failed in this session
    held,            \* history: streams with a dequeued output buffer not yet released
    blockingCalls,   \* history: bounded-timeout calls made since the last check at the loop head
    calls            \* the external calls made by the last step, in order

vars == <<pc, gRecordAudio, gStopRequested, disposition, videoTrackIdx,
          audioTrackIdx, tracksAdded, lastAudioPtsUs, now, startWhenNsec,
          endWhenNsec, err, muxTracks, startCalls, addTrackCalls, stopCalls,
          lastAudioWrite, caught, lastVideoWrite, audioSetupFailed,
          blockingCalls, held, calls>>

----------------------------------------------------------------------------
(* Bounds of the model *)

MaxFormatChanges == 2 \* FORMAT_CHANGED results per session
MaxAudioPts == 23319  \* audio data is injected while lastAudioPtsUs is at most this
TimeLimitSec == 1     \* gTimeLimitSec of the session, in 1..kMaxTimeLimitSec
NsPerSec == 1000      \* clock units per second (scaled)
TickNs == 1000        \* clock advance of one Tick

AudioPtsIn == {-7, 0, 50, 90, 100} \* timestamps the audio encoder may report
VideoPtsIn == {0, 100}             \* timestamps the video encoder may report
DataSize == 4                      \* size of a non-empty output buffer
InitClock == {1500}               \* clock reading when the process starts

----------------------------------------------------------------------------
(* Program constants *)

kAacFrameTimeUs == 23219
NsPerUs == 1000
NoTrack == -1

Streams == {"video", "audio"}
Signals == {"SIGINT", "SIGHUP"}
\* flag words an encoder may report on a data buffer and on a codec-config buffer
DataFlagsIn == {{}, {"SYNCFRAME"}, {"EOS"}}
ConfigFlagsIn == {{"CODECCONFIG"}, {"CODECCONFIG", "EOS"}}

\* output buffers an encoder may report: data buffers with every timestamp,
\* codec-config buffers (empty or not) and empty buffers
BuffersIn(ptsIn) ==
    [size : {DataSize}, pts : ptsIn, flags : DataFlagsIn]
    \cup [size : {0, DataSize}, pts : {0}, flags : ConfigFlagsIn]
    \cup [size : {0}, pts : {0}, flags : {{}, {"EOS"}}]

Errors == {"INVALID_OPERATION", "DEAD_OBJECT"}

\* result of muxer->addTrack when the muxer holds n tracks: the next track index
AddTrackResults(n) == {n}

----------------------------------------------------------------------------
(* Call records *)

kTimeout == 20000  \* timeout of the dequeue calls, in microseconds

Call(op, stream, res) ==
    [op |-> op, stream |-> stream, trackIdx |-> 0, pts |-> 0, size |-> 0,
     flags |-> {}, res |-> res, timeout |-> 0]

DequeueCall(stream, res, size, pts, flags) ==
    [op |-> "dequeueOutputBuffer", stream |-> stream, trackIdx |-> 0,
     pts |-> pts, size |-> size, flags |-> flags, res |-> res,
     timeout |-> kTimeout]

\* mutant: the sync bit is not passed on to the muxer
WriteCall_DropSync(stream, trackIdx, pts, flags, res) ==
    [op |-> "writeSampleData", stream |-> stream, trackIdx |-> trackIdx,
     pts |-> pts, size |-> 0, flags |-> flags \ {"SYNCFRAME"}, res |-> res,
     timeout |-> 0]

WriteCall(stream, trackIdx, pts, flags, res) ==
    [op |-> "writeSampleData", stream |-> stream, trackIdx |-> trackIdx,
     pts |-> pts, size |-> 0, flags |-> flags, res |-> res, timeout |-> 0]

DequeueInputCall(stream, res) ==
    [Call("dequeueInputBuffer", stream, res) EXCEPT !.timeout = kTimeout]

AddTrackCall(stream, idx) ==
    [op |-> "addTrack", stream |-> stream, trackIdx |-> idx, pts |-> 0,
     size |-> 0, flags |-> {}, timeout |-> 0,
     res |-> IF idx >= 0 THEN "NO_ERROR" ELSE "INVALID_OPERATION"]

\* number of calls in cs that wait with a timeout
NumTimed(cs) == Cardinality({i \in 1..Len(cs) : cs[i].timeout > 0})

\* streams holding an output buffer after the calls cs, h being held before
HeldAfter(h, cs) ==
    (h \cup {cs[i].stream : i \in {j \in 1..Len(cs) :
                 cs[j].op = "dequeueOutputBuffer" /\ cs[j].res = "NO_ERROR"}})
    \ {cs[i].stream : i \in {j \in 1..Len(cs) : cs[j].op = "releaseOutputBuffer"}}

Ops(cs) == {cs[i].op : i \in 1..Len(cs)}
Writes(cs) == SelectSeq(cs, LAMBDA c : c.op = "writeSampleData")
NumWrites(cs) == Len(Writes(cs))

----------------------------------------------------------------------------
(* Pure helpers of runEncoder *)

seconds_to_nanoseconds(s) == s * NsPerSec

SystemTimeUs(t) == t \div NsPerUs

IsCodecConfig(flags) == "CODECCONFIG" \in flags

IsEos(flags) == "EOS" \in flags

\* mutant: a codec-config buffer keeps its size
EffectiveSize_KeepConfig(size, flags) == size

EffectiveSize(size, flags) == IF IsCodecConfig(flags) THEN 0 ELSE size

\* mutant: the CHECK on the track index is missing
TrackRegistered_Unchecked(idx) == TRUE

TrackRegistered(idx) == idx # NoTrack


\* mutant: a timestamp below the last one is only clamped at zero
AudioPts_NoStep(ptsUsec, last) == IF ptsUsec < 0 THEN 0 ELSE ptsUsec

\* mutant: a buffer flagged end-of-stream requests the stop
StopAfterBuffer_EosStops(flags, stop) == IF IsEos(flags) THEN TRUE ELSE stop

\* gStopRequested after a buffer with these flags has been released
StopAfterBuffer(flags, stop) == IF IsEos(flags) THEN FALSE ELSE stop

\* mutant: a zero timestamp is written as reported
VideoPts_KeepZero(ptsUsec, t) == ptsUsec

VideoPts(ptsUsec, t) == IF ptsUsec = 0 THEN SystemTimeUs(t) ELSE ptsUsec

\* mutant: a negative timestamp is not clamped at zero
AudioPts_NoClamp(ptsUsec, last) ==
    IF ptsUsec < last THEN last + kAacFrameTimeUs ELSE ptsUsec

AudioPts(ptsUsec, last) ==
    LET clamped == IF ptsUsec < 0 THEN 0 ELSE ptsUsec
    IN  IF clamped < last THEN last + kAacFrameTimeUs ELSE clamped

ExpectedTracks(stream, recordAudio) ==
    IF stream = "video" THEN (IF recordAudio THEN 2 ELSE 1) ELSE 2

\* mutant: the muxer is started on the first registration
StartDue_First(added, stream, recordAudio) == added >= 1

StartDue(added, stream, recordAudio) == added >= ExpectedTracks(stream, recordAudio)

\* mutant: the loop condition ignores the flag
StopRequestedAtHead_Never(stop) == FALSE

StopRequestedAtHead(stop) == stop

\* mutant: the time limit is never reached
DeadlinePassed_Never(t, endWhen) == FALSE

DeadlinePassed(t, endWhen) == t > endWhen

\* mutant: the result of writeSampleData is ignored
WriteFailed_Ignored(res) == FALSE

WriteFailed(res) == res # "NO_ERROR"

----------------------------------------------------------------------------
Init ==
    /\ pc = "configureSignals"
    /\ gRecordAudio \in BOOLEAN
    /\ gStopRequested = FALSE
    /\ disposition = [s \in Signals |-> "orig"]
    /\ videoTrackIdx = NoTrack
    /\ audioTrackIdx = NoTrack
    /\ tracksAdded = 0
    /\ lastAudioPtsUs = 0
    /\ now \in InitClock
    /\ startWhenNsec = 0
    /\ endWhenNsec = 0
    /\ err = "NO_ERROR"
    /\ muxTracks = 0
    /\ startCalls = 0
    /\ addTrackCalls = [s \in Streams |-> 0]
    /\ stopCalls = 0
    /\ lastAudioWrite = <<>>
    /\ caught = FALSE
    /\ lastVideoWrite = <<>>
    /\ audioSetupFailed = FALSE
    /\ blockingCalls = 0
    /\ held = {}
    /\ calls = <<>>

locals == <<videoTrackIdx, audioTrackIdx, tracksAdded, lastAudioPtsUs>>
clock == <<now, startWhenNsec, endWhenNsec>>
muxHist == <<muxTracks, startCalls, addTrackCalls, stopCalls, lastAudioWrite>>

----------------------------------------------------------------------------
(* recordScreen, before the loop *)

ConfigureSignals ==
    /\ pc = "configureSignals"
    /\ \/ /\ disposition' = [s \in Signals |-> "signalCatcher"]
          /\ pc' = "prepareVideoEncoder"
          /\ err' = "NO_ERROR"
       \/ /\ \E s \in {{}, {"SIGINT"}} :
                disposition' = [x \in Signals |-> IF x \in s THEN "signalCatcher" ELSE "orig"]
          /\ pc' = "done"
          /\ err' = "SIGACTION_FAILED"
    /\ calls' = <<>>
    /\ UNCHANGED <<gRecordAudio, gStopRequested, locals, clock, muxHist, caught>>
    /\ blockingCalls' = blockingCalls + NumTimed(calls')
    /\ held' = HeldAfter(held, calls')
    /\ UNCHANGED <<lastVideoWrite, audioSetupFailed>>

PrepareVideoEncoder ==
    /\ pc = "prepareVideoEncoder"
    /\ \/ pc' = "prepareAudioEncoder" /\ err' = "NO_ERROR" /\ calls' = <<>>
       \/ \E e \in Errors : pc' = "done" /\ err' = e /\ calls' = <<>>
    /\ UNCHANGED <<gRecordAudio, gStopRequested, disposition, locals, clock,
                   muxHist, caught>>
    /\ blockingCalls' = blockingCalls + NumTimed(calls')
    /\ held' = HeldAfter(held, calls')
    /\ UNCHANGED <<lastVideoWrite, audioSetupFailed>>

\* mutant: a failed audio encoder setup leaves gRecordAudio set
PrepareAudioEncoder_KeepAudio ==
    /\ pc = "prepareAudioEncoder"
    /\ IF gRecordAudio
          THEN \E ok \in BOOLEAN :
                  /\ gRecordAudio' = TRUE
                  /\ err' = IF ok THEN "NO_ERROR" ELSE "INVALID_OPERATION"
                  /\ audioSetupFailed' = ~ok
          ELSE UNCHANGED <<gRecordAudio, err, audioSetupFailed>>
    /\ pc' = "prepareVirtualDisplay"
    /\ calls' = <<>>
    /\ UNCHANGED <<gStopRequested, disposition, locals, clock, muxHist, caught>>
    /\ blockingCalls' = blockingCalls + NumTimed(calls')
    /\ held' = HeldAfter(held, calls')
    /\ UNCHANGED lastVideoWrite

PrepareAudioEncoder ==
    /\ pc = "prepareAudioEncoder"
    /\ IF gRecordAudio
          THEN \E ok \in BOOLEAN :
                  /\ gRecordAudio' = ok
                  /\ err' = IF ok THEN "NO_ERROR" ELSE "INVALID_OPERATION"
          ELSE UNCHANGED <<gRecordAudio, err>>
    /\ pc' = "prepareVirtualDisplay"
    /\ calls' = <<>>
    /\ UNCHANGED <<gStopRequested, disposition, locals, clock, muxHist, caught>>
    /\ audioSetupFailed' = (gRecordAudio /\ ~gRecordAudio')
    /\ blockingCalls' = blockingCalls + NumTimed(calls')
    /\ held' = HeldAfter(held, calls')
    /\ UNCHANGED lastVideoWrite

PrepareVirtualDisplay ==
    /\ pc = "prepareVirtualDisplay"
    /\ \/ pc' = "runEncoder" /\ err' = "NO_ERROR" /\ calls' = <<>>
       \/ \E e \in Errors :
             /\ pc' = "done"
             /\ err' = e
             /\ calls' = <<Call("release", "video", "NO_ERROR")>>
                         \o (IF gRecordAudio THEN <<Call("release", "audio", "NO_ERROR")>>
                                             ELSE <<>>)
    /\ UNCHANGED <<gRecordAudio, gStopRequested, disposition, locals, clock,
                   muxHist, caught>>
    /\ blockingCalls' = blockingCalls + NumTimed(calls')
    /\ held' = HeldAfter(held, calls')
    /\ UNCHANGED <<lastVideoWrite, audioSetupFailed>>

----------------------------------------------------------------------------
(* runEncoder: setup before the loop *)

RunEncoderSetup ==
    /\ pc = "runEncoder"
    /\ startWhenNsec' = now
    /\ endWhenNsec' = now + seconds_to_nanoseconds(TimeLimitSec)
    /\ videoTrackIdx' = NoTrack
    /\ audioTrackIdx' = NoTrack
    /\ tracksAdded' = 0
    /\ lastAudioPtsUs' = 0
    /\ \/ /\ gStopRequested' = FALSE
          /\ caught' = FALSE
          /\ pc' = "loop"
          /\ err' = "NO_ERROR"
          /\ calls' = IF gRecordAudio
                         THEN <<Call("audioRecorderStart", "audio", "NO_ERROR")>>
                         ELSE <<>>
       \/ \E e \in Errors :
             /\ pc' = "returned"
             /\ err' = e
             /\ calls' = <<>>
             /\ UNCHANGED <<gStopRequested, caught>>
    /\ now' = now + TickNs   \* the calls of lines 388-436 take time
    /\ UNCHANGED <<gRecordAudio, disposition, muxHist>>
    /\ blockingCalls' = blockingCalls + NumTimed(calls')
    /\ held' = HeldAfter(held, calls')
    /\ UNCHANGED <<lastVideoWrite, audioSetupFailed>>

----------------------------------------------------------------------------
(* runEncoder: the loop *)

LoopHead ==
    /\ pc = "loop"
    /\ IF StopRequestedAtHead(gStopRequested) \/ DeadlinePassed(now, endWhenNsec)
          THEN pc' = "loopExit"
          ELSE pc' = IF gRecordAudio THEN "audioInput" ELSE "videoOutput"
    /\ calls' = <<>>
    /\ UNCHANGED <<gRecordAudio, gStopRequested, disposition, locals, clock, err,
                   muxHist, caught>>
    /\ blockingCalls' = 0
    /\ held' = HeldAfter(held, calls')
    /\ UNCHANGED <<lastVideoWrite, audioSetupFailed>>

\* mutant: a missing input buffer ends runEncoder
AudioInput_Abort ==
    /\ pc = "audioInput"
    /\ \E res \in {"NO_ERROR", "EAGAIN", "INVALID_OPERATION"} :
          IF res = "NO_ERROR"
             THEN \E qres \in {"NO_ERROR", "INVALID_OPERATION"} :
                     /\ calls' = <<DequeueInputCall("audio", res),
                                   Call("read", "audio", "NO_ERROR"),
                                   Call("queueInputBuffer", "audio", qres)>>
                     /\ err' = qres
                     /\ pc' = "videoOutput"
             ELSE /\ calls' = <<DequeueInputCall("audio", res)>>
                  /\ err' = res
                  /\ pc' = "returned"
    /\ UNCHANGED <<gRecordAudio, gStopRequested, disposition, locals, clock,
                   muxHist, caught>>
    /\ blockingCalls' = blockingCalls + NumTimed(calls')
    /\ held' = HeldAfter(held, calls')
    /\ UNCHANGED <<lastVideoWrite, audioSetupFailed>>

AudioInput ==
    /\ pc = "audioInput"
    /\ \E res \in {"NO_ERROR", "EAGAIN", "INVALID_OPERATION"} :
          IF res = "NO_ERROR"
             THEN \E qres \in {"NO_ERROR", "INVALID_OPERATION"} :
                     /\ calls' = <<DequeueInputCall("audio", res),
                                   Call("read", "audio", "NO_ERROR"),
                                   Call("queueInputBuffer", "audio", qres)>>
                     /\ err' = qres
             ELSE /\ calls' = <<DequeueInputCall("audio", res)>>
                  /\ err' = res
    /\ pc' = "videoOutput"
    /\ UNCHANGED <<gRecordAudio, gStopRequested, disposition, locals, clock,
                   muxHist, caught>>
    /\ blockingCalls' = blockingCalls + NumTimed(calls')
    /\ held' = HeldAfter(held, calls')
    /\ UNCHANGED <<lastVideoWrite, audioSetupFailed>>

\* mutant: a video-only session polls again without passing the loop head
NextAfterVideo_NoCheck == IF gRecordAudio THEN "audioOutput" ELSE "videoOutput"

\* mutant: with audio the video encoder is polled twice in an iteration
NextAfterVideo_Twice ==
    IF gRecordAudio THEN (IF blockingCalls = 1 THEN "videoOutput" ELSE "audioOutput")
                    ELSE "loop"

NextAfterVideo == IF gRecordAudio THEN "audioOutput" ELSE "loop"

\* case NO_ERROR of the video switch
VideoData ==
    /\ pc = "videoOutput"
    /\ \E buf \in BuffersIn(VideoPtsIn) :
          LET size == buf.size
              ptsUsec == buf.pts
              flags == buf.flags
              deq == DequeueCall("video", "NO_ERROR", size, ptsUsec, flags)
              pts == VideoPts(ptsUsec, now)
              rel(res) == Call("releaseOutputBuffer", "video", res)
              Release(before) ==
                  \E rres \in {"NO_ERROR", "INVALID_OPERATION"} :
                     /\ calls' = before \o <<rel(rres)>>
                     /\ err' = rres
                     /\ IF rres # "NO_ERROR"
                           THEN pc' = "returned" /\ UNCHANGED gStopRequested
                           ELSE /\ pc' = NextAfterVideo
                                /\ gStopRequested' = StopAfterBuffer(flags, gStopRequested)
          IN  IF EffectiveSize(size, flags) # 0
                 THEN IF ~TrackRegistered(videoTrackIdx)
                         THEN /\ pc' = "aborted"
                              /\ calls' = <<deq>>
                              /\ err' = "NO_ERROR"
                              /\ UNCHANGED gStopRequested
                         ELSE \E wres \in {"NO_ERROR", "INVALID_OPERATION"} :
                                 LET wr == WriteCall("video", videoTrackIdx, pts, flags, wres)
                                 IN  IF WriteFailed(wres)
                                        THEN /\ pc' = "returned"
                                             /\ calls' = <<deq, wr>>
                                             /\ err' = wres
                                             /\ UNCHANGED gStopRequested
                                        ELSE Release(<<deq, wr>>)
                 ELSE Release(<<deq>>)
    /\ UNCHANGED <<gRecordAudio, disposition, locals, clock, muxHist, caught>>
    /\ lastVideoWrite' = IF Len(calls') >= 2 /\ calls'[2].op = "writeSampleData"
                            THEN <<calls'[2].pts>>
                            ELSE lastVideoWrite
    /\ blockingCalls' = blockingCalls + NumTimed(calls')
    /\ held' = HeldAfter(held, calls')
    /\ UNCHANGED audioSetupFailed

\* mutant: -EAGAIN from the video encoder ends runEncoder
VideoAgain_Fatal ==
    /\ pc = "videoOutput"
    /\ calls' = <<DequeueCall("video", "EAGAIN", 0, 0, {})>>
    /\ err' = "EAGAIN"
    /\ pc' = "returned"
    /\ UNCHANGED <<gRecordAudio, gStopRequested, disposition, locals, clock,
                   muxHist, caught>>
    /\ blockingCalls' = blockingCalls + NumTimed(calls')
    /\ held' = HeldAfter(held, calls')
    /\ UNCHANGED <<lastVideoWrite, audioSetupFailed>>

\* case -EAGAIN of the video switch
VideoAgain ==
    /\ pc = "videoOutput"
    /\ calls' = <<DequeueCall("video", "EAGAIN", 0, 0, {})>>
    /\ err' = "EAGAIN"
    /\ pc' = NextAfterVideo
    /\ UNCHANGED <<gRecordAudio, gStopRequested, disposition, locals, clock,
                   muxHist, caught>>
    /\ blockingCalls' = blockingCalls + NumTimed(calls')
    /\ held' = HeldAfter(held, calls')
    /\ UNCHANGED <<lastVideoWrite, audioSetupFailed>>

\* case INFO_FORMAT_CHANGED of the video switch
VideoFormatChanged ==
    /\ pc = "videoOutput"
    /\ tracksAdded < MaxFormatChanges
    /\ \E idx \in AddTrackResults(muxTracks) :
          LET deq == DequeueCall("video", "INFO_FORMAT_CHANGED", 0, 0, {})
              pre == <<deq, Call("getOutputFormat", "video", "NO_ERROR"),
                       AddTrackCall("video", idx)>>
          IN  /\ videoTrackIdx' = idx
              /\ muxTracks' = IF idx >= 0 THEN muxTracks + 1 ELSE muxTracks
              /\ addTrackCalls' = [addTrackCalls EXCEPT !["video"] = @ + 1]
              /\ tracksAdded' = tracksAdded + 1
              /\ IF StartDue(tracksAdded + 1, "video", gRecordAudio)
                    THEN \E sres \in {"NO_ERROR", "INVALID_OPERATION"} :
                            /\ calls' = pre \o <<Call("start", "none", sres)>>
                            /\ startCalls' = startCalls + 1
                            /\ err' = sres
                            /\ pc' = IF sres # "NO_ERROR" THEN "returned"
                                                          ELSE NextAfterVideo
                    ELSE /\ calls' = pre
                         /\ err' = "INFO_FORMAT_CHANGED"
                         /\ pc' = NextAfterVideo
                         /\ UNCHANGED startCalls
    /\ UNCHANGED <<gRecordAudio, gStopRequested, disposition, audioTrackIdx,
                   lastAudioPtsUs, clock, stopCalls, lastAudioWrite, caught>>
    /\ blockingCalls' = blockingCalls + NumTimed(calls')
    /\ held' = HeldAfter(held, calls')
    /\ UNCHANGED <<lastVideoWrite, audioSetupFailed>>

\* case INFO_OUTPUT_BUFFERS_CHANGED of the video switch
VideoBuffersChanged ==
    /\ pc = "videoOutput"
    /\ \E gres \in {"NO_ERROR", "INVALID_OPERATION"} :
          /\ calls' = <<DequeueCall("video", "INFO_OUTPUT_BUFFERS_CHANGED", 0, 0, {}),
                        Call("getOutputBuffers", "video", gres)>>
          /\ err' = gres
          /\ pc' = IF gres # "NO_ERROR" THEN "returned" ELSE NextAfterVideo
    /\ UNCHANGED <<gRecordAudio, gStopRequested, disposition, locals, clock,
                   muxHist, caught>>
    /\ blockingCalls' = blockingCalls + NumTimed(calls')
    /\ held' = HeldAfter(held, calls')
    /\ UNCHANGED <<lastVideoWrite, audioSetupFailed>>

\* case INVALID_OPERATION and default of the video switch
VideoFatal ==
    /\ pc = "videoOutput"
    /\ \E e \in Errors :
          /\ calls' = <<DequeueCall("video", e, 0, 0, {})>>
          /\ err' = e
    /\ pc' = "returned"
    /\ UNCHANGED <<gRecordAudio, gStopRequested, disposition, locals, clock,
                   muxHist, caught>>
    /\ blockingCalls' = blockingCalls + NumTimed(calls')
    /\ held' = HeldAfter(held, calls')
    /\ UNCHANGED <<lastVideoWrite, audioSetupFailed>>

\* case NO_ERROR of the audio switch
AudioData ==
    /\ pc = "audioOutput"
    /\ lastAudioPtsUs <= MaxAudioPts
    /\ \E buf \in BuffersIn(AudioPtsIn) :
          LET size == buf.size
              ptsUsec == buf.pts
              flags == buf.flags
              deq == DequeueCall("audio", "NO_ERROR", size, ptsUsec, flags)
              pts == AudioPts(ptsUsec, lastAudioPtsUs)
              rel(res) == Call("releaseOutputBuffer", "audio", res)
              Release(before) ==
                  \E rres \in {"NO_ERROR", "INVALID_OPERATION"} :
                     /\ calls' = before \o <<rel(rres)>>
                     /\ err' = rres
                     /\ IF rres # "NO_ERROR"
                           THEN pc' = "returned" /\ UNCHANGED gStopRequested
                           ELSE /\ pc' = "loop"
                                /\ gStopRequested' = StopAfterBuffer(flags, gStopRequested)
          IN  IF EffectiveSize(size, flags) # 0
                 THEN IF ~TrackRegistered(audioTrackIdx)
                         THEN /\ pc' = "aborted"
                              /\ calls' = <<deq>>
                              /\ err' = "NO_ERROR"
                              /\ UNCHANGED <<gStopRequested, lastAudioPtsUs, lastAudioWrite>>
                         ELSE /\ lastAudioPtsUs' = pts
                              /\ lastAudioWrite' = <<pts>>
                              /\ \E wres \in {"NO_ERROR", "INVALID_OPERATION"} :
                                 LET wr == WriteCall("audio", audioTrackIdx, pts, flags, wres)
                                 IN  IF WriteFailed(wres)
                                        THEN /\ pc' = "returned"
                                             /\ calls' = <<deq, wr>>
                                             /\ err' = wres
                                             /\ UNCHANGED gStopRequested
                                        ELSE Release(<<deq, wr>>)
                 ELSE /\ Release(<<deq>>)
                      /\ UNCHANGED <<lastAudioPtsUs, lastAudioWrite>>
    /\ UNCHANGED <<gRecordAudio, disposition, videoTrackIdx, audioTrackIdx,
                   tracksAdded, clock, muxTracks, startCalls, addTrackCalls,
                   stopCalls, caught>>
    /\ blockingCalls' = blockingCalls + NumTimed(calls')
    /\ held' = HeldAfter(held, calls')
    /\ UNCHANGED <<lastVideoWrite, audioSetupFailed>>

\* case -EAGAIN of the audio switch
\* mutant: -EAGAIN from the audio encoder releases a buffer and forgets the
\* last audio timestamp
AudioAgain_Release ==
    /\ pc = "audioOutput"
    /\ calls' = <<DequeueCall("audio", "EAGAIN", 0, 0, {}),
                  Call("releaseOutputBuffer", "audio", "NO_ERROR")>>
    /\ err' = "EAGAIN"
    /\ pc' = "loop"
    /\ lastAudioPtsUs' = 0
    /\ UNCHANGED <<gRecordAudio, gStopRequested, disposition, videoTrackIdx,
                   audioTrackIdx, tracksAdded, clock, muxHist, caught>>
    /\ blockingCalls' = blockingCalls + NumTimed(calls')
    /\ held' = HeldAfter(held, calls')
    /\ UNCHANGED <<lastVideoWrite, audioSetupFailed>>

AudioAgain ==
    /\ pc = "audioOutput"
    /\ calls' = <<DequeueCall("audio", "EAGAIN", 0, 0, {})>>
    /\ err' = "EAGAIN"
    /\ pc' = "loop"
    /\ UNCHANGED <<gRecordAudio, gStopRequested, disposition, locals, clock,
                   muxHist, caught>>
    /\ blockingCalls' = blockingCalls + NumTimed(calls')
    /\ held' = HeldAfter(held, calls')
    /\ UNCHANGED <<lastVideoWrite, audioSetupFailed>>

\* case INFO_FORMAT_CHANGED of the audio switch
AudioFormatChanged ==
    /\ pc = "audioOutput"
    /\ tracksAdded < MaxFormatChanges
    /\ \E idx \in AddTrackResults(muxTracks) :
          LET deq == DequeueCall("audio", "INFO_FORMAT_CHANGED", 0, 0, {})
              pre == <<deq, Call("getOutputFormat", "audio", "NO_ERROR"),
                       AddTrackCall("audio", idx)>>
          IN  /\ audioTrackIdx' = idx
              /\ muxTracks' = IF idx >= 0 THEN muxTracks + 1 ELSE muxTracks
              /\ addTrackCalls' = [addTrackCalls EXCEPT !["audio"] = @ + 1]
              /\ tracksAdded' = tracksAdded + 1
              /\ IF StartDue(tracksAdded + 1, "audio", gRecordAudio)
                    THEN \E sres \in {"NO_ERROR", "INVALID_OPERATION"} :
                            /\ calls' = pre \o <<Call("start", "none", sres)>>
                            /\ startCalls' = startCalls + 1
                            /\ err' = sres
                            /\ pc' = IF sres # "NO_ERROR" THEN "returned" ELSE "loop"
                    ELSE /\ calls' = pre
                         /\ err' = "INFO_FORMAT_CHANGED"
                         /\ pc' = "loop"
                         /\ UNCHANGED startCalls
    /\ UNCHANGED <<gRecordAudio, gStopRequested, disposition, videoTrackIdx,
                   lastAudioPtsUs, clock, stopCalls, lastAudioWrite, caught>>
    /\ blockingCalls' = blockingCalls + NumTimed(calls')
    /\ held' = HeldAfter(held, calls')
    /\ UNCHANGED <<lastVideoWrite, audioSetupFailed>>

\* case INFO_OUTPUT_BUFFERS_CHANGED of the audio switch
AudioBuffersChanged ==
    /\ pc = "audioOutput"
    /\ \E gres \in {"NO_ERROR", "INVALID_OPERATION"} :
          /\ calls' = <<DequeueCall("audio", "INFO_OUTPUT_BUFFERS_CHANGED", 0, 0, {}),
                        Call("getOutputBuffers", "audio", gres)>>
          /\ err' = gres
          /\ pc' = IF gres # "NO_ERROR" THEN "returned" ELSE "loop"
    /\ UNCHANGED <<gRecordAudio, gStopRequested, disposition, locals, clock,
                   muxHist, caught>>
    /\ blockingCalls' = blockingCalls + NumTimed(calls')
    /\ held' = HeldAfter(held, calls')
    /\ UNCHANGED <<lastVideoWrite, audioSetupFailed>>

\* case INVALID_OPERATION and default of the audio switch
AudioFatal ==
    /\ pc = "audioOutput"
    /\ \E e \in Errors :
          /\ calls' = <<DequeueCall("audio", e, 0, 0, {})>>
          /\ err' = e
    /\ pc' = "returned"
    /\ UNCHANGED <<gRecordAudio, gStopRequested, disposition, locals, clock,
                   muxHist, caught>>
    /\ blockingCalls' = blockingCalls + NumTimed(calls')
    /\ held' = HeldAfter(held, calls')
    /\ UNCHANGED <<lastVideoWrite, audioSetupFailed>>

\* after the loop: stop the AudioRecord and return NO_ERROR
\* mutant: leaving the loop is reported as an error
LoopExit_Error ==
    /\ pc = "loopExit"
    /\ calls' = IF gRecordAudio THEN <<Call("audioRecorderStop", "audio", "NO_ERROR")>>
                                ELSE <<>>
    /\ err' = "INVALID_OPERATION"
    /\ pc' = "returned"
    /\ UNCHANGED <<gRecordAudio, gStopRequested, disposition, locals, clock,
                   muxHist, caught>>
    /\ blockingCalls' = blockingCalls + NumTimed(calls')
    /\ held' = HeldAfter(held, calls')
    /\ UNCHANGED <<lastVideoWrite, audioSetupFailed>>

LoopExit ==
    /\ pc = "loopExit"
    /\ calls' = IF gRecordAudio THEN <<Call("audioRecorderStop", "audio", "NO_ERROR")>>
                                ELSE <<>>
    /\ err' = "NO_ERROR"
    /\ pc' = "returned"
    /\ UNCHANGED <<gRecordAudio, gStopRequested, disposition, locals, clock,
                   muxHist, caught>>
    /\ blockingCalls' = blockingCalls + NumTimed(calls')
    /\ held' = HeldAfter(held, calls')
    /\ UNCHANGED <<lastVideoWrite, audioSetupFailed>>

----------------------------------------------------------------------------
(* recordScreen, after runEncoder has returned *)

ReleaseEncoders ==
    <<Call("release", "video", "NO_ERROR")>>
    \o (IF gRecordAudio THEN <<Call("release", "audio", "NO_ERROR")>> ELSE <<>>)

\* mutant: the muxer is stopped before the encoders
ShutdownCalls_MuxerFirst ==
    <<Call("releaseProducer", "video", "NO_ERROR"),
      Call("destroyDisplay", "video", "NO_ERROR"),
      Call("muxerStop", "none", "NO_ERROR"),
      Call("stop", "video", "NO_ERROR")>>
    \o (IF gRecordAudio THEN <<Call("stop", "audio", "NO_ERROR")>> ELSE <<>>)
    \o ReleaseEncoders

ShutdownCalls ==
    <<Call("releaseProducer", "video", "NO_ERROR"),
      Call("destroyDisplay", "video", "NO_ERROR"),
      Call("stop", "video", "NO_ERROR")>>
    \o (IF gRecordAudio THEN <<Call("stop", "audio", "NO_ERROR")>> ELSE <<>>)
    \o <<Call("muxerStop", "none", "NO_ERROR")>>
    \o ReleaseEncoders

AfterRunEncoder ==
    /\ pc = "returned"
    /\ IF err # "NO_ERROR"
          THEN /\ calls' = ReleaseEncoders
               /\ UNCHANGED stopCalls
          ELSE /\ calls' = ShutdownCalls
               /\ stopCalls' = stopCalls + 1
    /\ pc' = "done"
    /\ UNCHANGED <<gRecordAudio, gStopRequested, disposition, locals, clock, err,
                   muxTracks, startCalls, addTrackCalls, lastAudioWrite, caught>>
    /\ blockingCalls' = blockingCalls + NumTimed(calls')
    /\ held' = HeldAfter(held, calls')
    /\ UNCHANGED <<lastVideoWrite, audioSetupFailed>>

----------------------------------------------------------------------------
(* Environment: signals and the clock *)

LoopPcs == {"loop", "audioInput", "videoOutput", "audioOutput"}
Terminal == {"done", "aborted", "killed"}

\* mutant: the handler restores the disposition of the delivered signal only
Signal_OneOnly ==
    /\ pc \notin Terminal
    /\ \E s \in Signals :
          IF disposition[s] = "signalCatcher"
             THEN /\ gStopRequested' = TRUE
                  /\ disposition' = [disposition EXCEPT ![s] = "orig"]
                  /\ caught' = (pc \in LoopPcs)
                  /\ UNCHANGED pc
             ELSE /\ pc' = "killed"
                  /\ UNCHANGED <<gStopRequested, disposition, caught>>
    /\ calls' = <<>>
    /\ UNCHANGED <<gRecordAudio, locals, clock, err, muxHist>>
    /\ blockingCalls' = blockingCalls + NumTimed(calls')
    /\ held' = HeldAfter(held, calls')
    /\ UNCHANGED <<lastVideoWrite, audioSetupFailed>>

\* delivery of SIGINT or SIGHUP: signalCatcher, or the original disposition
Signal ==
    /\ pc \notin Terminal
    /\ \E s \in Signals :
          IF disposition[s] = "signalCatcher"
             THEN /\ gStopRequested' = TRUE
                  /\ disposition' = [x \in Signals |-> "orig"]
                  /\ caught' = (pc \in LoopPcs)
                  /\ UNCHANGED pc
             ELSE /\ pc' = "killed"
                  /\ UNCHANGED <<gStopRequested, disposition, caught>>
    /\ calls' = <<>>
    /\ UNCHANGED <<gRecordAudio, locals, clock, err, muxHist>>
    /\ blockingCalls' = blockingCalls + NumTimed(calls')
    /\ held' = HeldAfter(held, calls')
    /\ UNCHANGED <<lastVideoWrite, audioSetupFailed>>

Tick ==
    /\ pc \in LoopPcs
    /\ now <= endWhenNsec
    /\ now' = now + TickNs
    /\ calls' = <<>>
    /\ UNCHANGED <<pc, gRecordAudio, gStopRequested, disposition, locals,
                   startWhenNsec, endWhenNsec, err, muxHist, caught>>
    /\ blockingCalls' = blockingCalls + NumTimed(calls')
    /\ held' = HeldAfter(held, calls')
    /\ UNCHANGED <<lastVideoWrite, audioSetupFailed>>

----------------------------------------------------------------------------
Program ==
    \/ ConfigureSignals
    \/ PrepareVideoEncoder
    \/ PrepareAudioEncoder
    \/ PrepareVirtualDisplay
    \/ RunEncoderSetup
    \/ LoopHead
    \/ AudioInput
    \/ VideoData
    \/ VideoAgain
    \/ VideoFormatChanged
    \/ VideoBuffersChanged
    \/ VideoFatal
    \/ AudioData
    \/ AudioAgain
    \/ AudioFormatChanged
    \/ AudioBuffersChanged
    \/ AudioFatal
    \/ LoopExit
    \/ AfterRunEncoder

Next == Program \/ Signal \/ Tick

Spec == Init /\ [][Next]_vars

\* the clock keeps advancing and every bounded-timeout call returns
LiveSpec == Init /\ [][Next]_vars /\ WF_vars(Program) /\ WF_vars(Tick)

TypeOK ==
    /\ gRecordAudio \in BOOLEAN
    /\ gStopRequested \in BOOLEAN
    /\ tracksAdded \in 0..MaxFormatChanges

----------------------------------------------------------------------------
(* Properties *)

IsWrite(c) == c.op = "writeSampleData"
IsData(c) == c.op = "dequeueOutputBuffer" /\ c.res = "NO_ERROR"
IsFormatChanged(c) == c.op = "dequeueOutputBuffer" /\ c.res = "INFO_FORMAT_CHANGED"
HasCall(cs, P(_)) == \E i \in 1..Len(cs) : P(cs[i])
TrackIdxOf(stream) == IF stream = "video" THEN videoTrackIdx ELSE audioTrackIdx
SessionTracks == IF gRecordAudio THEN 2 ELSE 1
Stopped == pc \in {"loopExit", "returned", "done", "aborted", "killed"}

\* C1: muxer->writeSampleData is never called before muxer->start() has
\* been called.
C1_NoWriteBeforeStart ==
    HasCall(calls, IsWrite) => startCalls > 0

\* C2: muxer->start() is called in the step in which tracksAdded becomes
\* equal to the expected track count, and exactly once in the session.
C2_StartExactlyOnce ==
    /\ startCalls <= 1
    /\ (pc \in LoopPcs) => ((startCalls = 1) <=> (tracksAdded >= SessionTracks))
    /\ HasCall(calls, LAMBDA c : c.op = "start") => tracksAdded = SessionTracks

\* C3: in an audio+video session where each encoder reports FORMAT_CHANGED
\* once, start() is called only after both addTrack calls, exactly once, in
\* the step of the second registration, whichever stream registers first.
C3_StartAfterBothTracks ==
    (gRecordAudio /\ \A s \in Streams : addTrackCalls[s] <= 1) =>
        /\ startCalls <= 1
        /\ (startCalls = 1) <=> (\A s \in Streams : addTrackCalls[s] = 1)
        /\ HasCall(calls, LAMBDA c : c.op = "start") =>
              /\ Len(calls) = 4
              /\ calls[3].op = "addTrack"
              /\ calls[4].op = "start"
              /\ tracksAdded = 2

C3_Witness ==
    /\ gRecordAudio
    /\ \A s \in Streams : addTrackCalls[s] = 1
    /\ Len(calls) = 4
    /\ calls[3].op = "addTrack" /\ calls[3].stream = "video"
    /\ calls[4].op = "start"
    /\ audioTrackIdx = 0 /\ videoTrackIdx = 1

\* C4: the timestamps passed to writeSampleData on the audio track never
\* decrease, and lastAudioPtsUs equals the last audio timestamp written.
C4_AudioPtsMonotonic ==
    [][ /\ (lastAudioWrite' # <<>> => lastAudioPtsUs' = lastAudioWrite'[1])
        /\ \A i \in 1..Len(calls') :
              (IsWrite(calls'[i]) /\ calls'[i].stream = "audio") =>
                  /\ lastAudioWrite' = <<calls'[i].pts>>
                  /\ (lastAudioWrite # <<>> => calls'[i].pts >= lastAudioWrite[1]) ]_vars

C4_Witness ==
    /\ Len(calls) >= 2
    /\ IsData(calls[1]) /\ calls[1].stream = "audio"
    /\ IsWrite(calls[2])
    /\ calls[1].pts = 50
    /\ calls[2].pts = 100 + kAacFrameTimeUs + kAacFrameTimeUs

\* C5: a buffer flagged codec-config is never passed to writeSampleData,
\* whatever its size and other flags, and it is still released to its encoder.
C5_ConfigNeverWritten ==
    /\ \A i \in 1..Len(calls) : IsWrite(calls[i]) => ~IsCodecConfig(calls[i].flags)
    /\ (Len(calls) >= 1 /\ IsData(calls[1]) /\ IsCodecConfig(calls[1].flags)) =>
          /\ Len(calls) = 2
          /\ calls[2].op = "releaseOutputBuffer"
          /\ calls[2].stream = calls[1].stream

C5_Witness ==
    /\ Len(calls) = 2
    /\ IsData(calls[1]) /\ calls[1].stream = "audio"
    /\ calls[1].flags = {"CODECCONFIG", "EOS"} /\ calls[1].size > 0
    /\ audioTrackIdx # NoTrack
    /\ calls[2].op = "releaseOutputBuffer"

C7_LoopStopsByDeadline ==
    /\ <>Stopped
    /\ [][ (pc = "loop" /\ now > startWhenNsec + seconds_to_nanoseconds(TimeLimitSec)
            /\ pc' # pc) => pc' \in {"loopExit", "killed"} ]_vars

C7_Witness ==
    /\ pc = "loopExit"
    /\ ~gStopRequested
    /\ now > startWhenNsec + seconds_to_nanoseconds(TimeLimitSec)

\* C8: a second FORMAT_CHANGED for the same stream aborts the loop with a
\* failure, with no second addTrack and no start for that stream.
C8_SecondFormatChangeFatal ==
    [][ \A s \in Streams :
          (addTrackCalls[s] >= 1
           /\ HasCall(calls', LAMBDA c : IsFormatChanged(c) /\ c.stream = s)) =>
              /\ pc' \in {"returned", "aborted"}
              /\ err' # "NO_ERROR"
              /\ addTrackCalls' = addTrackCalls
              /\ startCalls' = startCalls ]_vars

\* C9: a data buffer (size > 0, not codec-config) dequeued while the track
\* index of its stream is still -1 is fatal, and is not written.
C9_DataBeforeTrackFatal ==
    (/\ Len(calls) >= 1
     /\ IsData(calls[1])
     /\ calls[1].size > 0
     /\ ~IsCodecConfig(calls[1].flags)
     /\ TrackIdxOf(calls[1].stream) = NoTrack) =>
        /\ pc = "aborted"
        /\ ~HasCall(calls, IsWrite)

C9_Witness ==
    /\ pc = "aborted"
    /\ Len(calls) = 1
    /\ IsData(calls[1]) /\ calls[1].stream = "audio"
    /\ audioTrackIdx = NoTrack
    /\ videoTrackIdx # NoTrack

\* C10: a failed writeSampleData makes runEncoder return that error at once;
\* after the return no writeSampleData, dequeue or addTrack is made, and
\* recordScreen returns the non-zero status.
C10_WriteFailureReturns ==
    [][ /\ \A i \in 1..Len(calls') :
              (IsWrite(calls'[i]) /\ calls'[i].res # "NO_ERROR") =>
                  /\ i = Len(calls')
                  /\ pc' = "returned"
                  /\ err' = calls'[i].res
        /\ (pc = "returned" /\ err # "NO_ERROR" /\ pc' # pc) =>
              /\ pc' \in {"done", "killed"}
              /\ err' = err
              /\ Ops(calls') \subseteq {"release"} ]_vars

C10_Witness ==
    /\ pc = "returned"
    /\ err # "NO_ERROR"
    /\ Len(calls) = 2
    /\ IsWrite(calls[2]) /\ calls[2].stream = "audio"
    /\ calls[2].res = err

\* position of the first call with the given op and stream in cs, 0 if none
IndexOf(cs, op, stream) ==
    LET hits == {i \in 1..Len(cs) : cs[i].op = op /\ cs[i].stream = stream}
    IN  IF hits = {} THEN 0 ELSE CHOOSE i \in hits : \A j \in hits : i <= j

\* C11: after a successful runEncoder the capture producer is released
\* first, then the video and (with audio) the audio encoder are stopped, and
\* muxer->stop() comes last among the stops; no writeSampleData follows it.
C11_ShutdownOrder ==
    /\ HasCall(calls, LAMBDA c : c.op = "muxerStop") =>
          LET producer == IndexOf(calls, "releaseProducer", "video")
              display == IndexOf(calls, "destroyDisplay", "video")
              vstop == IndexOf(calls, "stop", "video")
              astop == IndexOf(calls, "stop", "audio")
              mstop == IndexOf(calls, "muxerStop", "none")
          IN  /\ err = "NO_ERROR"
              /\ 0 < producer /\ producer < display /\ display < vstop
              /\ vstop < mstop
              /\ gRecordAudio <=> astop > 0
              /\ astop > 0 => (vstop < astop /\ astop < mstop)
              /\ \A i \in 1..Len(calls) : calls[i].op = "stop" => i < mstop
              /\ ~HasCall(calls, IsWrite)
    /\ stopCalls > 0 => (pc = "done" /\ ~HasCall(calls, IsWrite))

C11_Witness ==
    /\ pc = "done"
    /\ gRecordAudio
    /\ startCalls = 1
    /\ stopCalls = 1
    /\ IndexOf(calls, "stop", "audio") = 4
    /\ IndexOf(calls, "muxerStop", "none") = 5

\* C12: an audio timestamp t reported with last emitted value L is emitted
\* as max(t, 0), or as L + 23219 when max(t, 0) < L, and L becomes the
\* emitted value; so [100, 90, 50] from L = 0 is emitted [100, 23319, 46538].
C12_AudioReconciler ==
    [][ (/\ Len(calls') >= 2
         /\ IsData(calls'[1]) /\ calls'[1].stream = "audio"
         /\ IsWrite(calls'[2])) =>
            LET t == calls'[1].pts
                L == lastAudioPtsUs
                clamped == IF t > 0 THEN t ELSE 0
                emitted == calls'[2].pts
            IN  /\ clamped < L => emitted = L + 23219
                /\ clamped >= L => emitted = clamped
                /\ lastAudioPtsUs' = emitted
                /\ (t = 100 /\ L = 0) => emitted = 100
                /\ (t = 90 /\ L = 100) => emitted = 23319
                /\ (t = 50 /\ L = 23319) => emitted = 46538 ]_vars

C12_Witness ==
    /\ Len(calls) >= 2
    /\ IsData(calls[1]) /\ calls[1].stream = "audio"
    /\ IsWrite(calls[2])
    /\ calls[1].pts = 90
    /\ calls[2].pts = 23319
    /\ lastAudioPtsUs = 23319
    /\ lastAudioPtsUs = calls[2].pts

\* a step that dequeued a data buffer of the stream and wrote it to the muxer
WroteSample(cs, stream) ==
    /\ Len(cs) >= 2
    /\ IsData(cs[1]) /\ cs[1].stream = stream
    /\ IsWrite(cs[2])

\* C13: a video data buffer reported with timestamp 0 is written with the
\* current monotonic clock reading in microseconds, which is non-zero and
\* later than the session start; a non-zero timestamp is written unchanged.
C13_VideoZeroPts ==
    [][ WroteSample(calls', "video") =>
            LET reported == calls'[1].pts
                written == calls'[2].pts
            IN  /\ reported = 0 =>
                      /\ written = now \div 1000
                      /\ written # 0
                      /\ written * 1000 > startWhenNsec
                /\ reported # 0 => written = reported ]_vars

C13_Witness ==
    /\ WroteSample(calls, "video")
    /\ calls[1].pts = 0
    /\ calls[2].pts = now \div 1000
    /\ calls[2].pts > 0
    /\ calls[2].res = "NO_ERROR"

\* C14: the timestamps written on the video track never decrease, whatever
\* sequence of timestamps the video encoder reports.
C14_VideoPtsMonotonic ==
    [][ (WroteSample(calls', "video") /\ lastVideoWrite # <<>>) =>
            calls'[2].pts >= lastVideoWrite[1] ]_vars

\* C15: once a stream has been registered its track index never changes and
\* addTrack is not called for that stream again.
C15_TrackCreatedOnce ==
    [][ \A s \in Streams :
           addTrackCalls[s] >= 1 =>
              /\ addTrackCalls'[s] = addTrackCalls[s]
              /\ (IF s = "video" THEN videoTrackIdx' = videoTrackIdx
                                 ELSE audioTrackIdx' = audioTrackIdx)
              /\ ~HasCall(calls', LAMBDA c : c.op = "addTrack" /\ c.stream = s) ]_vars

IsDequeueOutput(c, res) == c.op = "dequeueOutputBuffer" /\ c.res = res

\* C16 (as stated): a step whose dequeueOutputBuffer returns -EAGAIN or
\* INFO_OUTPUT_BUFFERS_CHANGED never ends the loop.
C16_TransientNeverEndsLoop ==
    [][ (/\ calls' # <<>>
         /\ \/ IsDequeueOutput(calls'[1], "EAGAIN")
            \/ IsDequeueOutput(calls'[1], "INFO_OUTPUT_BUFFERS_CHANGED")) =>
            pc' \in LoopPcs ]_vars

\* C16 (amended): -EAGAIN never ends the loop; after
\* INFO_OUTPUT_BUFFERS_CHANGED the buffer table is refreshed with
\* getOutputBuffers, the loop goes on if the refresh succeeds and runEncoder
\* returns the refresh's error if it fails; neither code is ever returned.
C16_TransientRecovered ==
    [][ /\ (calls' # <<>> /\ IsDequeueOutput(calls'[1], "EAGAIN")) =>
              /\ Len(calls') = 1
              /\ pc' \in LoopPcs
        /\ (calls' # <<>> /\ IsDequeueOutput(calls'[1], "INFO_OUTPUT_BUFFERS_CHANGED")) =>
              /\ Len(calls') = 2
              /\ calls'[2].op = "getOutputBuffers"
              /\ calls'[2].stream = calls'[1].stream
              /\ calls'[2].res = "NO_ERROR" => pc' \in LoopPcs
              /\ calls'[2].res # "NO_ERROR" =>
                    (pc' = "returned" /\ err' = calls'[2].res)
        /\ pc' \in {"returned", "done"} =>
              err' \notin {"EAGAIN", "INFO_OUTPUT_BUFFERS_CHANGED"} ]_vars

C16_Witness ==
    /\ Len(calls) = 2
    /\ IsDequeueOutput(calls[1], "INFO_OUTPUT_BUFFERS_CHANGED")
    /\ calls[1].stream = "video"
    /\ calls[2].op = "getOutputBuffers"
    /\ calls[2].res = "NO_ERROR"
    /\ pc = "audioOutput"
    /\ startCalls = 1

\* the step dequeued a data buffer flagged end-of-stream and released it
ProcessedEos(cs) ==
    /\ cs # <<>>
    /\ IsData(cs[1])
    /\ "EOS" \in cs[1].flags
    /\ cs[Len(cs)].op = "releaseOutputBuffer"
    /\ cs[Len(cs)].res = "NO_ERROR"

\* C17: an end-of-stream flag does not end the loop: after the buffer has
\* been processed the loop is still running with no stop requested, and a
\* loop head reached with no stop request and the deadline not passed goes
\* on to poll the encoders.
C17_EosKeepsRunning ==
    [][ /\ ProcessedEos(calls') =>
              /\ pc' \in LoopPcs
              /\ ~gStopRequested'
        /\ (/\ pc = "loop" /\ pc' \notin {pc, "killed"}
            /\ ~gStopRequested /\ now <= endWhenNsec) =>
              pc' = IF gRecordAudio THEN "audioInput" ELSE "videoOutput" ]_vars

C17_Witness ==
    /\ ProcessedEos(calls)
    /\ calls[1].stream = "audio"
    /\ Len(calls) = 3
    /\ pc = "loop"
    /\ ~gStopRequested
    /\ now <= endWhenNsec

\* C18: the expected track count does not change while the loop runs; in a
\* session whose audio encoder setup failed gRecordAudio is false from then
\* on, no call is made on the audio encoder or recorder, and muxer->start()
\* is called in the step that registers the video track, with no audio track.
C18_AudioSetupFailure ==
    [][ /\ pc \in LoopPcs \cup {"runEncoder"} => gRecordAudio' = gRecordAudio
        /\ audioSetupFailed' =>
              /\ ~gRecordAudio'
              /\ ~HasCall(calls', LAMBDA c : c.stream = "audio")
              /\ addTrackCalls'["audio"] = 0
              /\ HasCall(calls', LAMBDA c : c.op = "addTrack") <=>
                    HasCall(calls', LAMBDA c : c.op = "start")
              /\ pc' \notin {"audioInput", "audioOutput"} ]_vars

C18_Witness ==
    /\ audioSetupFailed
    /\ ~gRecordAudio
    /\ tracksAdded = 1
    /\ startCalls = 1
    /\ HasCall(calls, LAMBDA c : c.op = "start" /\ c.res = "NO_ERROR")
    /\ HasCall(calls, LAMBDA c : c.op = "addTrack" /\ c.stream = "video")
    /\ pc = "loop"

\* C19: leaving the loop by stop request or deadline makes runEncoder return
\* NO_ERROR, and recordScreen then calls muxer->stop() once and returns 0;
\* when runEncoder returned an error recordScreen returns that error and
\* only releases the encoders.
C19_StopIsNotAnError ==
    [][ /\ (pc = "loopExit" /\ pc' \notin {pc, "killed"}) =>
              (pc' = "returned" /\ err' = "NO_ERROR")
        /\ (pc = "returned" /\ pc' = "done") =>
              IF err = "NO_ERROR"
                 THEN /\ err' = "NO_ERROR"
                      /\ stopCalls' = 1
                      /\ Len(SelectSeq(calls', LAMBDA c : c.op = "muxerStop")) = 1
                 ELSE /\ err' = err
                      /\ stopCalls' = 0
                      /\ Ops(calls') = {"release"} ]_vars

C19_Witness ==
    /\ pc = "done"
    /\ err = "NO_ERROR"
    /\ stopCalls = 1
    /\ ~gStopRequested
    /\ disposition = [s \in Signals |-> "signalCatcher"]
    /\ now > endWhenNsec
    /\ HasCall(calls, LAMBDA c : c.op = "muxerStop")

\* C20: the stop condition is checked once per iteration, at the loop head
\* and before any call that waits; between two checks there are at most
\* three such calls (audio dequeueInputBuffer, video dequeueOutputBuffer,
\* audio dequeueOutputBuffer), one without audio, each with timeout kTimeout.
C20_OneCheckPerIteration ==
    [][ /\ blockingCalls' <= IF gRecordAudio' THEN 3 ELSE 1
        /\ (pc = "loop" /\ pc' \notin {pc, "killed"}) =>
              (calls' = <<>> /\ blockingCalls' = 0)
        /\ \A i \in 1..Len(calls') :
              /\ calls'[i].timeout \in {0, 20000}
              /\ calls'[i].timeout # 0 <=>
                    calls'[i].op \in {"dequeueInputBuffer", "dequeueOutputBuffer"}
              /\ calls'[i].timeout # 0 =>
                    /\ i = 1
                    /\ pc \in {"audioInput", "videoOutput", "audioOutput"}
                    /\ blockingCalls' = blockingCalls + 1
                    /\ <<calls'[i].op, calls'[i].stream>> =
                          IF ~gRecordAudio THEN <<"dequeueOutputBuffer", "video">>
                          ELSE IF blockingCalls' = 1 THEN <<"dequeueInputBuffer", "audio">>
                          ELSE IF blockingCalls' = 2 THEN <<"dequeueOutputBuffer", "video">>
                          ELSE <<"dequeueOutputBuffer", "audio">> ]_vars

C20_Witness ==
    /\ pc = "loop"
    /\ gRecordAudio
    /\ blockingCalls = 3
    /\ calls # <<>>
    /\ calls[1].op = "dequeueOutputBuffer"
    /\ calls[1].stream = "audio"
    /\ calls[1].timeout = kTimeout

\* C21: -EAGAIN from dequeueOutputBuffer is a no-op: tracksAdded, the track
\* indices, lastAudioPtsUs and the muxer are left as they were, no other call
\* is made (no muxer call, no release, no buffer table refresh), and the
\* iteration goes on with its next step.
C21_WouldBlockNoOp ==
    [][ (calls' # <<>> /\ IsDequeueOutput(calls'[1], "EAGAIN")) =>
            /\ Len(calls') = 1
            /\ locals' = locals
            /\ muxHist' = muxHist
            /\ lastVideoWrite' = lastVideoWrite
            /\ gStopRequested' = gStopRequested
            /\ held' = held
            /\ pc' = IF calls'[1].stream = "video"
                        THEN (IF gRecordAudio THEN "audioOutput" ELSE "loop")
                        ELSE "loop" ]_vars

C21_Witness ==
    /\ Len(calls) = 1
    /\ IsDequeueOutput(calls[1], "EAGAIN")
    /\ calls[1].stream = "audio"
    /\ pc = "loop"
    /\ startCalls = 1
    /\ lastAudioPtsUs = 23319

\* C22: with audio enabled an iteration feeds at most one chunk to the audio
\* encoder, as its first step; when dequeueInputBuffer gives no buffer, read
\* and queueInputBuffer are skipped, the loop goes on to poll the video
\* encoder, and an iteration that completes has made all three polls.
C22_AudioInputBestEffort ==
    [][ /\ pc = "audioInput" /\ pc' \notin {pc, "killed"} =>
              /\ pc' = "videoOutput"
              /\ calls'[1].op = "dequeueInputBuffer"
              /\ IF calls'[1].res = "NO_ERROR"
                    THEN /\ Len(calls') = 3
                         /\ calls'[2].op = "read"
                         /\ calls'[3].op = "queueInputBuffer"
                    ELSE Len(calls') = 1
        /\ HasCall(calls', LAMBDA c : c.op \in {"read", "queueInputBuffer"}) =>
              /\ pc = "audioInput"
              /\ blockingCalls = 0
              /\ blockingCalls' = 1
        /\ (gRecordAudio /\ pc \in {"videoOutput", "audioOutput"} /\ pc' = "loop") =>
              blockingCalls' = 3 ]_vars

C22_Witness ==
    /\ pc = "videoOutput"
    /\ gRecordAudio
    /\ blockingCalls = 1
    /\ Len(calls) = 1
    /\ calls[1].op = "dequeueInputBuffer"
    /\ calls[1].res = "EAGAIN"
    /\ startCalls = 1

\* C23: every sample written carries the track index that addTrack returned
\* for its own stream, which is not the other stream's index, and the flags
\* the encoder reported for the buffer, unchanged.
C23_OwnTrackAndFlags ==
    [][ /\ \A i \in 1..Len(calls') :
              IsWrite(calls'[i]) =>
                 /\ i = 2
                 /\ IsData(calls'[1])
                 /\ calls'[2].stream = calls'[1].stream
                 /\ calls'[2].flags = calls'[1].flags
                 /\ calls'[2].trackIdx >= 0
                 /\ IF calls'[2].stream = "video"
                       THEN /\ calls'[2].trackIdx = videoTrackIdx
                            /\ calls'[2].trackIdx # audioTrackIdx
                       ELSE /\ calls'[2].trackIdx = audioTrackIdx
                            /\ calls'[2].trackIdx # videoTrackIdx
        /\ \A i \in 1..Len(calls') :
              calls'[i].op = "addTrack" =>
                 calls'[i].trackIdx = IF calls'[i].stream = "video"
                                         THEN videoTrackIdx' ELSE audioTrackIdx'
        /\ videoTrackIdx' # videoTrackIdx =>
              HasCall(calls', LAMBDA c : c.op = "addTrack" /\ c.stream = "video")
                 \/ pc = "runEncoder"
        /\ audioTrackIdx' # audioTrackIdx =>
              HasCall(calls', LAMBDA c : c.op = "addTrack" /\ c.stream = "audio")
                 \/ pc = "runEncoder" ]_vars

C23_Witness ==
    /\ WroteSample(calls, "audio")
    /\ calls[2].flags = {"SYNCFRAME"}
    /\ calls[2].trackIdx = audioTrackIdx
    /\ audioTrackIdx = 0
    /\ videoTrackIdx = 1
    /\ calls[2].res = "NO_ERROR"

\* C24: in one loop iteration at most one video sample and at most one audio
\* sample are written, each in the step that dequeued it, and the video
\* sample is written before the audio sample.
C24_VideoThenAudio ==
    [][ /\ NumWrites(calls') <= 1
        /\ HasCall(calls', IsWrite) =>
              \/ /\ WroteSample(calls', "video")
                 /\ pc = "videoOutput"
                 /\ blockingCalls' = IF gRecordAudio THEN 2 ELSE 1
              \/ /\ WroteSample(calls', "audio")
                 /\ pc = "audioOutput"
                 /\ blockingCalls' = 3
        /\ pc = "audioOutput" => pc' # "videoOutput"
        /\ (pc = "videoOutput" /\ pc' = "videoOutput") => calls' = <<>> ]_vars

C24_Witness ==
    /\ WroteSample(calls, "audio")
    /\ blockingCalls = 3
    /\ lastVideoWrite # <<>>
    /\ lastAudioWrite # <<>>
    /\ calls[2].res = "NO_ERROR"
    /\ pc = "loop"

IsRelease(c) == c.op = "releaseOutputBuffer"
NumReleases(cs) == Len(SelectSeq(cs, IsRelease))

\* C25 (as stated): every output buffer dequeued with success is released to
\* its encoder exactly once, and so no buffer is ever left held.
C25_ReleasedExactlyOnce ==
    [][ /\ (calls' # <<>> /\ IsData(calls'[1])) =>
              /\ NumReleases(calls') = 1
              /\ calls'[Len(calls')].stream = calls'[1].stream
        /\ held' = {} ]_vars

\* C25 (amended): a dequeued output buffer is written at most once and then
\* released once, as the last call of its step, unless the muxer write
\* fails or the track is not registered: then runEncoder returns or the
\* process aborts with the buffer unreleased. While the loop runs and when
\* it ends normally no buffer is held.
C25_ReleasedUnlessFatal ==
    [][ /\ (calls' # <<>> /\ IsData(calls'[1])) =>
              LET n == Len(calls')
                  s == calls'[1].stream
              IN  /\ NumWrites(calls') <= 1
                  /\ NumReleases(calls') <= 1
                  /\ \A i \in 2..n : calls'[i].stream = s
                  /\ \A i \in 1..n : IsRelease(calls'[i]) => i = n
                  /\ \A i \in 1..n :
                        (IsWrite(calls'[i]) /\ calls'[i].res # "NO_ERROR") =>
                           (i = n /\ pc' = "returned" /\ held' = {s})
                  /\ NumReleases(calls') = 0 =>
                        \/ pc' = "aborted" /\ n = 1
                        \/ pc' = "returned" /\ IsWrite(calls'[n])
                  /\ NumReleases(calls') = 1 => held' = {}
        /\ pc' \in LoopPcs \cup {"loopExit"} => held' = {}
        /\ (pc = "loopExit" /\ pc' = "returned") => held' = {} ]_vars

C25_Witness ==
    /\ Len(calls) = 3
    /\ WroteSample(calls, "video")
    /\ calls[2].res = "NO_ERROR"
    /\ IsRelease(calls[3])
    /\ calls[3].stream = "video"
    /\ held = {}
    /\ pc = "audioOutput"

AllOrig(d) == \A x \in Signals : d[x] = "orig"

\* C26: the first SIGINT or SIGHUP runs the handler, which only sets
\* gStopRequested and restores the original disposition of both signals; any
\* later signal meets the original disposition: the handler never runs again.
C26_HandlerRunsOnce ==
    [][ /\ (\E x \in Signals : disposition[x] = "signalCatcher"
                                 /\ disposition'[x] = "orig") =>
              /\ gStopRequested'
              /\ AllOrig(disposition')
              /\ pc' = pc
              /\ calls' = <<>>
              /\ <<gRecordAudio', locals', clock', err', muxHist'>> =
                    <<gRecordAudio, locals, clock, err, muxHist>>
        /\ (AllOrig(disposition) /\ pc # "configureSignals") =>
              /\ disposition' = disposition
              /\ gStopRequested' => gStopRequested
        /\ (pc' = "killed" /\ pc # "killed") => AllOrig(disposition)
        /\ (gStopRequested' /\ ~gStopRequested) =>
              (~AllOrig(disposition) /\ AllOrig(disposition')) ]_vars

C26_Witness ==
    /\ pc = "killed"
    /\ gStopRequested
    /\ caught
    /\ AllOrig(disposition)
    /\ startCalls = 1

\* C27: once the handler has set gStopRequested while the loop runs, the
\* flag stays set through every step of the iteration, and the next check at
\* the loop head leaves the loop.
C27_StopNeverLost ==
    [][ /\ (caught /\ gStopRequested /\ pc \in LoopPcs \ {"loop"}) =>
              gStopRequested'
        /\ (caught /\ gStopRequested /\ pc = "loop" /\ pc' \notin {pc, "killed"}) =>
              pc' = "loopExit" ]_vars

\* C28: a signal caught after configureSignals and before the loop is entered
\* stops the recording: the flag is still set when the loop is entered, the
\* first check at the loop head leaves the loop, and no sample is written.
C28_EarlySignalStops ==
    [][ /\ (gStopRequested /\ pc \notin LoopPcs /\ pc' # "killed") =>
              gStopRequested'
        /\ (AllOrig(disposition) /\ ~caught /\ pc = "loop"
            /\ pc' \notin {pc, "killed"}) =>
              pc' = "loopExit"
        /\ (AllOrig(disposition') /\ ~caught' /\ pc' \in LoopPcs) =>
              ~HasCall(calls', IsWrite) ]_vars

\* C29: muxer->stop() is called only after muxer->start() has been called,
\* addTrack is never called after start(), and writeSampleData is never
\* called after stop().
C29_MuxerProtocol ==
    [][ /\ stopCalls' > 0 => startCalls' > 0
        /\ startCalls > 0 => ~HasCall(calls', LAMBDA c : c.op = "addTrack")
        /\ stopCalls > 0 => ~HasCall(calls', IsWrite) ]_vars
====
